---- MODULE Spec2Model ----
(***************************************************************************)
(* Model of raspberry/camera_agent.py: the camera agent's main poll loop   *)
(* (poll_and_execute_loop), the PIR watcher (_pir_poll_loop), the detached *)
(* detection flows (_handle_pir_detection), the capture lock               *)
(* (CAPTURE_LOCK) and the data-usage buffer (DATA_USAGE_BUFFER).           *)
(*                                                                         *)
(* Threads: thread 0 is the main thread running poll_and_execute_loop;     *)
(* threads 1..MaxFlows are the daemon threads started by the PIR watcher,  *)
(* each running _handle_pir_detection once.  A step of a thread is one     *)
(* stretch of its code between two accesses to shared state or two         *)
(* blocking calls (lock acquisition, subprocess, HTTP request, sleep).     *)
(*                                                                         *)
(* Time is a discrete clock.  Each specification runs a part of the agent,  *)
(* so that TLC can exhaust it:                                             *)
(*   SpecCapture    poll loop and detection flows around CAPTURE_LOCK      *)
(*   FairCapture    SpecCapture with every thread scheduled fairly         *)
(*   SpecTelemetry  poll loop and one detection flow around the buffer     *)
(*   SpecPoll       the poll loop alone, every reply and failure           *)
(*   SpecStream     a stream session against the clock                     *)
(*   SpecPIR        the PIR watcher against the clock                      *)
(*   SpecIter       the poll loop alone, its calls recorded                *)
(*   SpecPhoto      photos of the poll loop and of one detection flow      *)
(*   SpecFlow       two detection flows up to their stream session         *)
(*   SpecFrames     the poll loop's stream sessions, calls recorded        *)
(*   SpecWatch      the PIR watcher beside the flows it starts             *)
(*   SpecExit       the process from init_pir_sensor to its end            *)
(*   SpecShutdown   SpecExit with the flow cut at its stream session       *)
(*   SpecUsage      _add_data_usage called with any arguments              *)
(*   SpecSerial     the poll loop's actions beside the flows' photos       *)
(* In the specifications that do not run the clock, a comparison with the  *)
(* clock can come out either way.                                          *)
(***************************************************************************)
EXTENDS Integers, Sequences, FiniteSets, TLC

\* ---------------------------------------------------------------- bounds
MaxFlows == 2        \* detection-flow threads that can be started
MaxPolls == 2        \* iterations of the poll loop explored
MaxFrames == 1       \* iterations of one stream loop when the clock is not run
MaxFileBytes == 1    \* largest captured file, in bytes
MaxRespBytes == 1    \* largest HTTP response body, in bytes
MaxPayloadBytes == 1 \* largest JSON request payload, in bytes
MaxStreamTime == 10  \* last second of the clock in SpecStream
MaxPirTime == 9      \* ticks of the clock explored in SpecPIR
ShortCooldownTicks == 6  \* the shorter of the cooldowns explored, in ticks
MaxRises == 2        \* activations of the motion sensor
MaxWatchTime == 12   \* ticks of the clock explored in SpecWatch
MinLevelTicks == 2   \* shortest time the sensor's output stays at a level, in ticks

\* ---------------------------------------------------------------- names
Poller == 0
Flows == 1..MaxFlows
Threads == {Poller} \cup Flows
NoOwner == -1

\* DATA_USAGE_BUFFER's keys, in the dict's insertion order
CatSeq == <<"detection", "photo", "stream", "system">>
Categories == {CatSeq[i] : i \in 1..Len(CatSeq)}

NoAdd == [cat |-> "none", n |-> 0, tmp |-> 0, ret |-> "none"]
Zeros == [c \in Categories |-> 0]

VARIABLES
  pc,                  \* position of each thread in its code
  CAPTURE_LOCK,        \* owner of the threading.Lock, or NoOwner
  caller,              \* which routine a thread called capture_photo_with_fswebcam from
  PHOTO_FILE,          \* the file at PHOTO_FILE_PATH: [exists, size]
  file_size,           \* per thread: upload_photo's local, os.path.getsize of the file
  DATA_USAGE_ENABLED,  \* configuration flag
  DATA_USAGE_BUFFER,   \* category -> bytes
  add,                 \* per thread: the `+=` of _add_data_usage in progress
  poll_count,          \* the poll loop's counter
  stream_duration,     \* the poll loop's local: streamDurationSeconds of the reply
  ENERGY_SAMPLE_EVERY_POLLS,
  DATA_USAGE_FLUSH_EVERY_POLLS,
  FRAME_INTERVAL_SECONDS,
  PIR_STREAM_DURATION_SECONDS,
  snapshot,            \* list(DATA_USAGE_BUFFER.items()) taken by the flush
  flushIdx,            \* index in CatSeq of the entry the flush loop is at
  clock,               \* the time, in the unit of the specification
  end_time,            \* per thread: deadline of its stream session
  wake,                \* per thread: when its time.sleep returns
  GPIO_AVAILABLE,      \* whether RPi.GPIO could be imported
  pir_thread,          \* the PIR watcher's thread: "running", or "off" (never started)
  raised,              \* per thread: the exception on its way out of a call, or "none"
  cleanups,            \* calls of GPIO.cleanup() so far
  cooldown_seconds,    \* the PIR watcher's argument
  last_shot,           \* the PIR watcher's local: time of the last trigger
  pir_value,           \* the level at the sensor's pin
  pir_wake,            \* when the PIR watcher's time.sleep returns
  \* history variables (not program state)
  taken_by,            \* the thread whose capture wrote the file at PHOTO_FILE_PATH last
                       \* (kept, like trace, when recording)
  frames,              \* per thread: iterations begun by its current stream loop
  work_end,            \* per thread: when its stream loop last left capture/upload
  owed,                \* category -> bytes recorded and not yet in a successful report
  sent,                \* category -> reports sent by the current flush
  lastFailed,          \* category -> bytes of its latest report if that failed, else 0
  failed,              \* whether something failed in the poll loop's current iteration
  prev_value,          \* the PIR watcher's previous reading
  prev_shot,           \* last_shot before the last trigger
  pir_error,           \* whether a reading of the pin has failed
  rises,               \* activations of the sensor so far
  riseAt,              \* when the last activation began
  held,                \* how long the last finished activation lasted
  recording,           \* whether trace is kept in this specification
  trace,               \* per thread: what it did, in order, in the current iteration of
                       \* the poll loop or in the detection flow: [e, d] with e the event
                       \* and d a number that goes with it
  gap                  \* how long after the one before the last activation began: "less" than the cooldown, "equal", "more"; "none" for the first

vars == <<pc, CAPTURE_LOCK, caller, PHOTO_FILE, DATA_USAGE_ENABLED, DATA_USAGE_BUFFER,
          add, poll_count, stream_duration, ENERGY_SAMPLE_EVERY_POLLS,
          DATA_USAGE_FLUSH_EVERY_POLLS, FRAME_INTERVAL_SECONDS,
          PIR_STREAM_DURATION_SECONDS, snapshot, flushIdx, clock, end_time, wake,
          frames, work_end, owed, sent, lastFailed, failed, cooldown_seconds,
          last_shot, pir_value, pir_wake, prev_value, prev_shot, pir_error, rises,
          riseAt, held, gap, file_size, recording, trace, GPIO_AVAILABLE, pir_thread,
          raised, cleanups, taken_by>>

configVars == <<DATA_USAGE_ENABLED, ENERGY_SAMPLE_EVERY_POLLS, DATA_USAGE_FLUSH_EVERY_POLLS,
                FRAME_INTERVAL_SECONDS, PIR_STREAM_DURATION_SECONDS, recording>>
flushVars == <<snapshot, flushIdx, sent, lastFailed>>
captureVars == <<CAPTURE_LOCK, caller, PHOTO_FILE, file_size>>
streamVars == <<end_time, wake, frames, work_end>>
pollVars == <<poll_count, stream_duration>>
watcherVars == <<last_shot, pir_wake, prev_value, prev_shot, pir_error>>
sensorVars == <<pir_value, rises, riseAt, held, gap>>
pirVars == <<cooldown_seconds, watcherVars, sensorVars>>
procVars == <<GPIO_AVAILABLE, pir_thread, raised, cleanups>>

Goto(t, label) == pc' = [pc EXCEPT ![t] = label]

\* thread t begins an iteration with e (history)
Begin(t, e, d) ==
  trace' = IF recording THEN [trace EXCEPT ![t] = <<[e |-> e, d |-> d]>>] ELSE trace

\* thread t did the events of es, in order (history)
RecordAll(t, es) ==
  trace' = IF recording THEN [trace EXCEPT ![t] = @ \o es] ELSE trace

\* thread t did e (history)
Record(t, e, d) ==
  trace' = IF recording THEN [trace EXCEPT ![t] = Append(@, [e |-> e, d |-> d])] ELSE trace

\* ------------------------------------------------------- continuations
\* where handle_photo_action returns to: the poll loop goes on to the
\* telemetry calls, a detection flow to _request_stream_session
AfterPhoto(t) == IF t = Poller THEN "energy" ELSE "reqstream"

\* where stream_for_duration returns to
AfterStream(t) == IF t = Poller THEN "energy" ELSE "done"

\* (mutation: no handler, the error leaves poll_and_execute_loop)
PollExceptMissing == "crashed"

\* `except Exception` of the loop body: the error is logged and the
\* iteration goes on with the telemetry calls
PollExcept == "energy"

\* the exceptions that can be raised in thread t outside every handler of
\* the routine it runs: an error, and in the main thread KeyboardInterrupt
RaiseKinds(t) == IF t = Poller THEN {"error", "interrupt"} ELSE {"error"}

\* where an exception that leaves stream_for_duration is caught: the third
\* try/except of _handle_pir_detection, the loop's `except Exception`, or,
\* for KeyboardInterrupt, the handler of __main__
AfterStreamRaise(t, kind) ==
  IF t # Poller THEN "done"
  ELSE IF kind = "error" THEN PollExcept ELSE "main_except"

\* ------------------------------------------------------ _add_data_usage
\* The guards of _add_data_usage and the load half of
\* DATA_USAGE_BUFFER[event_type] += bytes_count; the store half is AddStore.
\* The statement takes no lock: another thread can run between the halves.
\* (mutation: the byte count not tested)
AddDataUsageUnguarded(t, event_type, bytes_count, ret) ==
  IF ~DATA_USAGE_ENABLED
  THEN /\ Goto(t, ret)
       /\ UNCHANGED <<add, owed>>
  ELSE LET cat == IF event_type \in Categories THEN event_type ELSE "system" IN
       /\ add' = [add EXCEPT ![t] = [cat |-> cat, n |-> bytes_count,
                                      tmp |-> DATA_USAGE_BUFFER[cat], ret |-> ret]]
       /\ owed' = [owed EXCEPT ![cat] = @ + bytes_count]
       /\ Goto(t, "add_store")

AddDataUsage(t, event_type, bytes_count, ret) ==
  IF ~DATA_USAGE_ENABLED \/ bytes_count <= 0
  THEN /\ Goto(t, ret)
       /\ UNCHANGED <<add, owed>>
  ELSE LET cat == IF event_type \in Categories THEN event_type ELSE "system" IN
       /\ add' = [add EXCEPT ![t] = [cat |-> cat, n |-> bytes_count,
                                      tmp |-> DATA_USAGE_BUFFER[cat], ret |-> ret]]
       /\ owed' = [owed EXCEPT ![cat] = @ + bytes_count]
       /\ Goto(t, "add_store")

AddStore(t) ==
  /\ pc[t] = "add_store"
  /\ DATA_USAGE_BUFFER' = [DATA_USAGE_BUFFER EXCEPT ![add[t].cat] = add[t].tmp + add[t].n]
  /\ add' = [add EXCEPT ![t] = NoAdd]
  /\ Goto(t, add[t].ret)
  /\ UNCHANGED <<captureVars, configVars, pollVars, flushVars, clock, pirVars, procVars, taken_by, streamVars,
                 owed, failed, trace>>

\* ------------------------------------------- capture_photo_with_fswebcam
\* (mutation: the capture step entered without waiting for the lock)
LockFreeIgnored == TRUE

\* (mutation: the lock taken against the main thread only)
LockFreeAmongFlows == CAPTURE_LOCK = NoOwner \/ CAPTURE_LOCK # Poller

\* `with CAPTURE_LOCK:` blocks until the lock is free
LockFree == CAPTURE_LOCK = NoOwner

\* (mutation: the lock released only when the block returns normally)
LockKeptOnError(t, ok) == IF ok THEN NoOwner ELSE t

\* (mutation: the upload made inside the `with` block, the lock still held)
LockHeldThroughUpload(t, ok) == IF ok THEN t ELSE NoOwner

\* the lock's owner when the `with` block is left; ok tells whether the
\* block returned normally or raised
LockAfterCapture(t, ok) == NoOwner

\* what one run of fswebcam can do: exit code, whether it wrote the file,
\* and the size of what it wrote
CaptureOutcomes ==
  [rc : {0, 1}, wrote : {TRUE}, size : 0..MaxFileBytes]
    \cup [rc : {0, 1}, wrote : {FALSE}, size : {0}]

\* the file after the run
FileAfter(out) ==
  IF out.wrote THEN [exists |-> TRUE, size |-> out.size] ELSE PHOTO_FILE

\* neither RuntimeError (returncode != 0) nor FileNotFoundError (no file)
CaptureSucceeds(out) == out.rc = 0 /\ FileAfter(out).exists

\* where a thread goes when the capture it called returns or raises:
\* handle_photo_action uploads or catches the error and returns;
\* stream_for_duration uploads or sleeps one frame interval and continues
\* (mutation: a failed photo capture ends the detection flow)
AfterCaptureAbort(t, ok) ==
  IF caller[t] = "photo"
  THEN IF ok THEN "photo_upload" ELSE IF t = Poller THEN "energy" ELSE "done"
  ELSE IF ok THEN "stream_upload" ELSE "stream_sleep"

\* (mutation: a failed frame capture leaves the stream loop)
AfterCaptureBreak(t, ok) ==
  IF caller[t] = "photo"
  THEN IF ok THEN "photo_upload" ELSE AfterPhoto(t)
  ELSE IF ok THEN "stream_upload" ELSE "stream_end"

AfterCapture(t, ok) ==
  IF caller[t] = "photo"
  THEN IF ok THEN "photo_upload" ELSE AfterPhoto(t)
  ELSE IF ok THEN "stream_upload" ELSE "stream_sleep"

CaptureAcquire(t) ==
  /\ pc[t] = "cap_wait"
  /\ LockFree
  /\ CAPTURE_LOCK' = t
  /\ Goto(t, "cap_run")
  /\ UNCHANGED <<caller, PHOTO_FILE, file_size, configVars, DATA_USAGE_BUFFER, add,
                 pollVars, flushVars, clock, pirVars, procVars, taken_by, streamVars, owed, failed, trace>>

CaptureRun(t) ==
  /\ pc[t] = "cap_run"
  /\ \E out \in CaptureOutcomes :
       /\ PHOTO_FILE' = FileAfter(out)
       /\ taken_by' = IF recording /\ out.wrote THEN t ELSE taken_by
       /\ CAPTURE_LOCK' = LockAfterCapture(t, CaptureSucceeds(out))
       /\ Goto(t, AfterCapture(t, CaptureSucceeds(out)))
       /\ failed' = (failed \/ (t = Poller /\ ~CaptureSucceeds(out)))
       /\ Record(t, IF CaptureSucceeds(out) THEN "capture_ok" ELSE "capture_failed",
                 FileAfter(out).size)
  /\ work_end' = IF caller[t] = "stream" THEN [work_end EXCEPT ![t] = clock] ELSE work_end
  /\ UNCHANGED <<caller, file_size, configVars, DATA_USAGE_BUFFER, add, pollVars,
                 flushVars, clock, pirVars, procVars, end_time, wake, frames, owed>>

\* -------------------------------------------------- handle_photo_action
PhotoStart(t) ==
  /\ pc[t] = "photo_start"
  /\ caller' = [caller EXCEPT ![t] = "photo"]
  /\ Goto(t, "cap_wait")
  /\ Record(t, "TakePhoto", 0)
  /\ UNCHANGED <<CAPTURE_LOCK, PHOTO_FILE, file_size, configVars, DATA_USAGE_BUFFER, add, pollVars,
                 flushVars, clock, pirVars, procVars, taken_by, streamVars, owed, failed>>

\* upload_photo up to its POST: os.path.getsize(file_path), then open
PhotoUpload(t) ==
  /\ pc[t] = "photo_upload"
  /\ file_size' = [file_size EXCEPT ![t] = PHOTO_FILE.size]
  /\ Goto(t, "photo_post")
  /\ UNCHANGED <<CAPTURE_LOCK, caller, PHOTO_FILE, configVars, DATA_USAGE_BUFFER, add,
                 pollVars, flushVars, clock, pirVars, procVars, taken_by, streamVars, owed, failed, trace>>

\* the POST of the file as it is now; file_size + the reply's length is
\* recorded, and a failed POST (or a reply that is not JSON) is logged and
\* nothing is recorded.  d of the event: the file's bytes sent + the reply's.
\* (mutation: the upload tried again after a failure)
PhotoPostRetry(t) == "photo_upload"

\* except around the POST of upload_photo: the error is logged, upload_photo
\* and handle_photo_action return
AfterPhotoPostFailure(t) == AfterPhoto(t)

PhotoPost(t) ==
  /\ pc[t] = "photo_post"
  /\ \/ \E resp_bytes \in 0..MaxRespBytes :
          /\ AddDataUsage(t, "photo", file_size[t] + resp_bytes, AfterPhoto(t))
          /\ Record(t, "photo_post_ok", PHOTO_FILE.size + resp_bytes)
          /\ UNCHANGED failed
     \/ /\ Goto(t, AfterPhotoPostFailure(t))
        /\ Record(t, "photo_post_failed", 0)
        /\ failed' = (failed \/ t = Poller)
        /\ UNCHANGED <<add, owed>>
  /\ file_size' = [file_size EXCEPT ![t] = 0]
  /\ UNCHANGED <<CAPTURE_LOCK, caller, PHOTO_FILE, configVars, DATA_USAGE_BUFFER, pollVars,
                 flushVars, clock, pirVars, procVars, taken_by, streamVars>>

\* ----------------------------------------------- _request_stream_session
RequestStream(t) ==
  /\ pc[t] = "reqstream"
  /\ \/ \E payload \in 1..MaxPayloadBytes, resp_bytes \in 0..MaxRespBytes :
          /\ AddDataUsage(t, "system", payload + resp_bytes, "stream_begin")
          /\ Record(t, "reqstream_ok", PIR_STREAM_DURATION_SECONDS)
     \/ /\ Goto(t, "stream_begin")
        /\ Record(t, "reqstream_failed", PIR_STREAM_DURATION_SECONDS)
        /\ UNCHANGED <<add, owed>>
  /\ UNCHANGED <<captureVars, configVars, DATA_USAGE_BUFFER, pollVars, flushVars,
                 clock, pirVars, procVars, taken_by, streamVars, failed>>


\* --------------------------------------------------- stream_for_duration
\* the duration the caller passes
Duration(t) == IF t = Poller THEN stream_duration ELSE PIR_STREAM_DURATION_SECONDS

\* end_time = datetime.now() + timedelta(seconds=duration_seconds)
StreamBegin(t) ==
  /\ pc[t] = "stream_begin"
  /\ end_time' = [end_time EXCEPT ![t] = clock + Duration(t)]
  /\ frames' = [frames EXCEPT ![t] = 0]
  /\ work_end' = [work_end EXCEPT ![t] = clock]
  /\ Goto(t, "stream_check")
  /\ Record(t, "Run", Duration(t))
  /\ UNCHANGED <<captureVars, configVars, DATA_USAGE_BUFFER, add, pollVars,
                 flushVars, clock, pirVars, procVars, taken_by, wake, owed, failed>>

\* (mutation: the deadline itself still counted as in time)
InTimeInclusive(t) == clock <= end_time[t]

\* datetime.now() < end_time
InTime(t) == clock < end_time[t]

\* the loop's test; inTime is the comparison's result
StreamCheck(t, inTime) ==
  /\ pc[t] = "stream_check"
  /\ IF inTime
     THEN /\ caller' = [caller EXCEPT ![t] = "stream"]
          /\ frames' = [frames EXCEPT ![t] = @ + 1]
          /\ Goto(t, "cap_wait")
     ELSE /\ Goto(t, "stream_end")
          /\ UNCHANGED <<caller, frames>>
  /\ Record(t, IF inTime THEN "frame" ELSE "deadline", 0)
  /\ UNCHANGED <<CAPTURE_LOCK, PHOTO_FILE, file_size, configVars, DATA_USAGE_BUFFER, add, pollVars,
                 flushVars, clock, pirVars, procVars, taken_by, end_time, wake, work_end, owed, failed>>

\* (mutation: a failed frame upload skipped like a failed capture)
AfterUploadFailureContinue == "stream_sleep"

\* except around the frame's POST: log, break
AfterUploadFailure == "stream_end"

\* the frame's upload: an empty file is skipped, a failed POST leaves the loop
StreamUpload(t) ==
  /\ pc[t] = "stream_upload"
  /\ IF PHOTO_FILE.size = 0
     THEN /\ Goto(t, "stream_sleep")
          /\ Record(t, "frame_empty", 0)
          /\ UNCHANGED <<add, owed, failed>>
     ELSE \/ \E resp_bytes \in 0..MaxRespBytes :
               /\ AddDataUsage(t, "stream", PHOTO_FILE.size + resp_bytes, "stream_sleep")
               /\ Record(t, "frame_post_ok", PHOTO_FILE.size + resp_bytes)
               /\ UNCHANGED failed
          \/ /\ Goto(t, AfterUploadFailure)
             /\ Record(t, "frame_post_failed", 0)
             /\ failed' = (failed \/ t = Poller)
             /\ UNCHANGED <<add, owed>>
  /\ work_end' = [work_end EXCEPT ![t] = clock]
  /\ UNCHANGED <<captureVars, configVars, DATA_USAGE_BUFFER, pollVars, flushVars,
                 clock, pirVars, procVars, taken_by, end_time, wake, frames>>

\* (mutation: the session hands control back to the poll loop between
\* frames instead of sleeping inside it)
AfterFramePollsAgain == "poll"

\* where the loop goes after a frame whose capture failed (sleep, continue)
\* and after a frame it handled (sleep at the end of the body)
AfterFrame == "sleeping"

\* time.sleep(FRAME_INTERVAL_SECONDS) is called
StreamSleep(t) ==
  /\ pc[t] = "stream_sleep"
  /\ wake' = [wake EXCEPT ![t] = clock + FRAME_INTERVAL_SECONDS]
  /\ Goto(t, AfterFrame)
  /\ Record(t, "frame_sleep", FRAME_INTERVAL_SECONDS)
  /\ UNCHANGED <<captureVars, configVars, DATA_USAGE_BUFFER, add, pollVars,
                 flushVars, clock, pirVars, procVars, taken_by, end_time, frames, work_end, owed, failed>>

\* the sleep is over
Slept(t) == clock >= wake[t]

\* time.sleep returns and the loop tests the deadline again; elapsed tells
\* whether the interval has passed
StreamWake(t, elapsed) ==
  /\ pc[t] = "sleeping"
  /\ elapsed
  /\ Goto(t, "stream_check")
  /\ UNCHANGED <<captureVars, configVars, DATA_USAGE_BUFFER, add, pollVars,
                 flushVars, clock, pirVars, procVars, taken_by, streamVars, owed, failed, trace>>

\* (mutation: the terminal line logged only when the loop ends by itself)
LogsOnNormalExit(kind) == kind = "none"

\* finally: log("Streaming finalizado"), whatever leaves the try block
FinallyLogs(kind) == TRUE

\* the finally clause logs "Streaming finalizado" and the call returns or
\* the exception goes on to its handler; the call's locals are gone
StreamEnd(t) ==
  /\ pc[t] = "stream_end"
  /\ Goto(t, IF raised[t] = "none" THEN AfterStream(t) ELSE AfterStreamRaise(t, raised[t]))
  /\ IF FinallyLogs(raised[t])
     THEN Record(t, "Streaming finalizado", 0)
     ELSE UNCHANGED trace
  /\ raised' = [raised EXCEPT ![t] = IF t = Poller /\ @ = "interrupt" THEN @ ELSE "none"]
  /\ failed' = (failed \/ (t = Poller /\ raised[t] = "error"))
  /\ end_time' = [end_time EXCEPT ![t] = 0]
  /\ wake' = [wake EXCEPT ![t] = 0]
  /\ frames' = [frames EXCEPT ![t] = 0]
  /\ work_end' = [work_end EXCEPT ![t] = 0]
  /\ UNCHANGED <<captureVars, configVars, DATA_USAGE_BUFFER, add, pollVars, flushVars,
                 clock, pirVars, GPIO_AVAILABLE, pir_thread, cleanups, taken_by, owed>>

\* an exception is raised in the loop of stream_for_duration outside its
\* two inner handlers (the log of the time left, time.sleep): it leaves the
\* loop through the finally clause
StreamRaise(t) ==
  /\ pc[t] \in {"stream_sleep", "sleeping"}
  /\ \E kind \in RaiseKinds(t) : raised' = [raised EXCEPT ![t] = kind]
  /\ Goto(t, "stream_end")
  /\ Record(t, "raise", 0)
  /\ UNCHANGED <<captureVars, configVars, DATA_USAGE_BUFFER, add, pollVars, flushVars,
                 clock, pirVars, GPIO_AVAILABLE, pir_thread, cleanups, taken_by,
                 streamVars, owed, failed>>

\* ------------------------------------------------- poll_and_execute_loop
Actions == {"none", "photo", "stream", "reboot"}

\* what the control endpoint can answer with a 2xx status: the body's
\* length, whether it parses, and the fields read from it
ControlReplies(durations) ==
  [bytes : 0..MaxRespBytes, parses : BOOLEAN, action : Actions, duration : durations]

\* (mutation: a stream started whatever its duration)
DispatchIgnoringDuration(action, duration) ==
  IF action = "photo" THEN "photo_start"
  ELSE IF action = "stream" THEN "stream_begin"
  ELSE "energy"

\* the if/elif/else on the reply
DispatchTarget(action, duration) ==
  IF action = "photo" THEN "photo_start"
  ELSE IF action = "stream" /\ duration > 0 THEN "stream_begin"
  ELSE "energy"

\* (mutation: the error of the energy POST ends the iteration's telemetry)
EnergyExceptSkipsFlush == "sleep"

\* the except clause around the energy POST; the function then returns
EnergyExcept == "flush"

\* (mutation: the counter incremented only when the control request succeeds)
CountOnSuccess(ok) == IF ok THEN poll_count + 1 ELSE poll_count

\* poll_count += 1, the first statement of the iteration; ok tells whether
\* the control request that follows succeeds
CountAfterPoll(ok) == poll_count + 1

\* poll_count += 1 and the GET; on a 2xx reply the body's length is recorded
\* before the body is parsed.  replies: what the endpoint can answer.
PollControl(replies) ==
  /\ pc[Poller] = "poll"
  /\ poll_count < MaxPolls
  /\ \/ /\ poll_count' = CountAfterPoll(FALSE)
        /\ Goto(Poller, PollExcept)
        /\ failed' = TRUE
        /\ Begin(Poller, "get_failed", 0)
        /\ UNCHANGED <<add, owed, stream_duration>>
     \/ \E r \in replies :
          /\ poll_count' = CountAfterPoll(r.parses)
          /\ Begin(Poller, IF r.parses THEN r.action ELSE "bad_reply", r.duration)
          /\ AddDataUsage(Poller, "system", r.bytes,
                          IF r.parses THEN DispatchTarget(r.action, r.duration)
                          ELSE PollExcept)
          /\ stream_duration' = IF r.parses THEN r.duration ELSE stream_duration
          /\ failed' = ~r.parses
  /\ UNCHANGED <<captureVars, configVars, DATA_USAGE_BUFFER, flushVars, clock, pirVars, procVars, taken_by, streamVars>>

\* (mutation: the sample sent without a temperature)
SampleWithoutTemp(readable) == TRUE

\* `if cpu_temp is None: return`: the sample is sent only with a temperature
SampleSent(readable) == readable

\* _send_energy_sample_if_needed
EnergySample ==
  /\ pc[Poller] = "energy"
  /\ IF ENERGY_SAMPLE_EVERY_POLLS <= 0 \/ poll_count % ENERGY_SAMPLE_EVERY_POLLS # 0
     THEN /\ Goto(Poller, "flush")
          /\ Record(Poller, "energy_skip", poll_count)
          /\ UNCHANGED <<add, owed, failed>>
     ELSE \E readable \in BOOLEAN :         \* _read_cpu_temperature: a value, or None
            LET read == IF readable THEN <<>>
                        ELSE <<[e |-> "temp_unreadable", d |-> poll_count]>>
            IN IF ~SampleSent(readable)
               THEN /\ Goto(Poller, "flush")
                    /\ RecordAll(Poller, read)
                    /\ failed' = TRUE
                    /\ UNCHANGED <<add, owed>>
               ELSE \/ \E payload \in 1..MaxPayloadBytes, resp_bytes \in 0..MaxRespBytes :
                         /\ AddDataUsage(Poller, "system", payload + resp_bytes, "flush")
                         /\ RecordAll(Poller, read \o
                                       <<[e |-> "energy_post_ok", d |-> poll_count]>>)
                         /\ UNCHANGED failed
                    \/ /\ Goto(Poller, EnergyExcept)       \* the POST fails
                       /\ RecordAll(Poller, read \o
                                     <<[e |-> "energy_post_failed", d |-> poll_count]>>)
                       /\ failed' = TRUE
                       /\ UNCHANGED <<add, owed>>
  /\ UNCHANGED <<captureVars, configVars, DATA_USAGE_BUFFER, pollVars, flushVars,
                 clock, pirVars, procVars, taken_by, streamVars>>

\* the first entry at or after index i whose total the loop does not skip
RECURSIVE NextEntry(_, _)
NextEntry(snap, i) ==
  IF i > Len(CatSeq) THEN i
  ELSE IF snap[CatSeq[i]] <= 0 THEN NextEntry(snap, i + 1)
  ELSE i

\* _flush_data_usage_if_needed up to its first POST: the three gates, then
\* list(DATA_USAGE_BUFFER.items())
FlushStart ==
  /\ pc[Poller] = "flush"
  /\ IF \/ ~DATA_USAGE_ENABLED
        \/ DATA_USAGE_FLUSH_EVERY_POLLS <= 0
        \/ poll_count % DATA_USAGE_FLUSH_EVERY_POLLS # 0
     THEN /\ Goto(Poller, "sleep")
          /\ Record(Poller, "flush_skip", poll_count)
          /\ UNCHANGED <<snapshot, flushIdx>>
     ELSE /\ Record(Poller, "flush", poll_count)
          /\ snapshot' = DATA_USAGE_BUFFER
          /\ flushIdx' = NextEntry(snapshot', 1)
          /\ Goto(Poller, IF flushIdx' > Len(CatSeq) THEN "sleep" ELSE "flush_item")
  /\ UNCHANGED <<captureVars, configVars, DATA_USAGE_BUFFER, add, pollVars, clock, pirVars, procVars, taken_by,
                 streamVars, owed, sent, lastFailed, failed>>

\* (mutation: the entry left as it is after a 2xx reply)
BufferNotReset(event_type, ok) == DATA_USAGE_BUFFER

\* the buffer after the report of event_type: a 2xx reply resets the entry
BufferAfterReport(event_type, ok) ==
  IF ok THEN [DATA_USAGE_BUFFER EXCEPT ![event_type] = 0] ELSE DATA_USAGE_BUFFER

\* (mutation: the flush given up at the first report that fails)
StopAfterFailure(ok) ==
  IF ok THEN NextEntry(snapshot, flushIdx + 1) ELSE Len(CatSeq) + 1

\* the entry the for loop goes on with: the except clause only logs
NextAfterReport(ok) == NextEntry(snapshot, flushIdx + 1)

\* one iteration of the flush loop with a POST
FlushItem ==
  /\ pc[Poller] = "flush_item"
  /\ LET event_type == CatSeq[flushIdx]
         total_bytes == snapshot[event_type]
     IN \E ok \in BOOLEAN :
          /\ DATA_USAGE_BUFFER' = BufferAfterReport(event_type, ok)
          /\ sent' = [sent EXCEPT ![event_type] = @ + 1]
          /\ owed' = [owed EXCEPT ![event_type] = IF ok THEN @ - total_bytes ELSE @]
          /\ lastFailed' = [lastFailed EXCEPT ![event_type] = IF ok THEN 0 ELSE total_bytes]
          /\ failed' = (failed \/ ~ok)
          /\ Record(Poller, IF ok THEN "report_ok" ELSE "report_failed", total_bytes)
          /\ flushIdx' = NextAfterReport(ok)
  /\ Goto(Poller, IF flushIdx' > Len(CatSeq) THEN "sleep" ELSE "flush_item")
  /\ UNCHANGED <<captureVars, configVars, add, pollVars, snapshot, clock, pirVars, procVars, taken_by, streamVars>>

\* time.sleep(POLL_INTERVAL_SECONDS); the flush's locals are gone
PollSleep ==
  /\ pc[Poller] = "sleep"
  /\ Goto(Poller, "poll")
  /\ snapshot' = Zeros
  /\ flushIdx' = 0
  /\ sent' = Zeros
  /\ UNCHANGED <<captureVars, configVars, DATA_USAGE_BUFFER, add, pollVars, clock, pirVars, procVars, taken_by,
                 streamVars, owed, lastFailed, failed, trace>>

\* ------------------------------------------------------- PIR detection
\* thread.start() of a detection flow: _handle_pir_detection begins with
\* handle_photo_action.  Threads are numbered in the order they are started.
ThreadStart(t) ==
  /\ pc[t] = "idle"
  /\ t = 1 \/ pc[t - 1] # "idle"
  /\ Goto(t, "photo_start")

\* a detection flow is started, the watcher's decision left open
PirTrigger(t) ==
  /\ pir_thread = "running"
  /\ ThreadStart(t)
  /\ UNCHANGED <<captureVars, configVars, DATA_USAGE_BUFFER, add, pollVars,
                 flushVars, clock, pirVars, procVars, taken_by, streamVars, owed, failed, trace>>

\* ----------------------------------------- init_pir_sensor and __main__
\* (mutation: an error of GPIO.setup leaves init_pir_sensor and the loop)
InitFailureFatal == "main_finally"

\* `except Exception` of init_pir_sensor: logged, the function returns and
\* poll_and_execute_loop goes on to its loop
AfterInitFailure == "poll"

\* init_pir_sensor, called once before the loop: without RPi.GPIO it logs
\* and returns; otherwise it sets the pin up and starts the watcher's
\* thread, or setmode/setup raises and the error is logged
Boot ==
  /\ pc[Poller] = "start"
  /\ IF ~GPIO_AVAILABLE
     THEN /\ Goto(Poller, "poll")
          /\ UNCHANGED <<pir_thread, raised>>
     ELSE \/ /\ pir_thread' = "running"
             /\ Goto(Poller, "poll")
             /\ UNCHANGED raised
          \/ /\ Goto(Poller, AfterInitFailure)
             /\ raised' = [raised EXCEPT ![Poller] =
                             IF AfterInitFailure = "poll" THEN "none" ELSE "error"]
             /\ UNCHANGED pir_thread
  /\ UNCHANGED <<captureVars, configVars, DATA_USAGE_BUFFER, add, pollVars, flushVars,
                 clock, pirVars, GPIO_AVAILABLE, cleanups, taken_by, streamVars, owed,
                 failed, trace>>

\* an exception leaves poll_and_execute_loop: KeyboardInterrupt during the
\* control request (`except Exception` does not catch it), or any
\* exception during time.sleep(POLL_INTERVAL_SECONDS), outside the try
PollRaise ==
  /\ pc[Poller] \in {"poll", "sleep"}
  /\ \E kind \in RaiseKinds(Poller) :
       /\ pc[Poller] = "poll" => kind = "interrupt"
       /\ raised' = [raised EXCEPT ![Poller] = kind]
       /\ Goto(Poller, IF kind = "interrupt" THEN "main_except" ELSE "main_finally")
  /\ Record(Poller, "raise", 0)
  /\ UNCHANGED <<captureVars, configVars, DATA_USAGE_BUFFER, add, pollVars, flushVars,
                 clock, pirVars, GPIO_AVAILABLE, pir_thread, cleanups, taken_by,
                 streamVars, owed, failed>>

\* KeyboardInterrupt while the main thread waits for fswebcam: the `with`
\* block is left, and the finally clause of a stream session comes next
CaptureRaise ==
  /\ pc[Poller] = "cap_run"
  /\ CAPTURE_LOCK' = LockAfterCapture(Poller, FALSE)
  /\ raised' = [raised EXCEPT ![Poller] = "interrupt"]
  /\ Goto(Poller, IF caller[Poller] = "stream" THEN "stream_end" ELSE "main_except")
  /\ Record(Poller, "raise", 0)
  /\ UNCHANGED <<caller, PHOTO_FILE, file_size, configVars, DATA_USAGE_BUFFER, add,
                 pollVars, flushVars, clock, pirVars, GPIO_AVAILABLE, pir_thread, cleanups,
                 taken_by, streamVars, owed, failed>>

\* except KeyboardInterrupt: log
MainExcept ==
  /\ pc[Poller] = "main_except"
  /\ Goto(Poller, "main_finally")
  /\ UNCHANGED <<captureVars, configVars, DATA_USAGE_BUFFER, add, pollVars, flushVars,
                 clock, pirVars, procVars, taken_by, streamVars, owed, failed, trace>>

\* (mutation: the cleanup made in the handler of KeyboardInterrupt)
CleanupOnInterrupt(kind) == kind = "interrupt"

\* finally: the clause runs whatever leaves the try block
CleanupRuns(kind) == TRUE

\* finally: if GPIO_AVAILABLE: GPIO.cleanup(); the process then ends, and
\* its daemon threads with it
MainFinally ==
  /\ pc[Poller] = "main_finally"
  /\ cleanups' = IF GPIO_AVAILABLE /\ CleanupRuns(raised[Poller])
                 THEN cleanups + 1 ELSE cleanups
  /\ Goto(Poller, "exited")
  /\ UNCHANGED <<captureVars, configVars, DATA_USAGE_BUFFER, add, pollVars, flushVars,
                 clock, pirVars, GPIO_AVAILABLE, pir_thread, raised, taken_by, streamVars,
                 owed, failed, trace>>

\* the process has not ended
Alive == pc[Poller] # "exited"

\* ------------------------------------------------------- specifications
\* the state at time now, the main thread at label start
InitFrom(now, start) ==
  /\ pc = [t \in Threads |-> IF t = Poller THEN start ELSE "idle"]
  /\ CAPTURE_LOCK = NoOwner
  /\ caller = [t \in Threads |-> "none"]
  /\ PHOTO_FILE = [exists |-> FALSE, size |-> 0]
  /\ DATA_USAGE_BUFFER = Zeros
  /\ add = [t \in Threads |-> NoAdd]
  /\ poll_count = 0
  /\ stream_duration = 0
  /\ snapshot = Zeros
  /\ flushIdx = 0
  /\ clock = now
  /\ end_time = [t \in Threads |-> 0]
  /\ wake = [t \in Threads |-> 0]
  /\ frames = [t \in Threads |-> 0]
  /\ work_end = [t \in Threads |-> 0]
  /\ owed = Zeros
  /\ sent = Zeros
  /\ lastFailed = Zeros
  /\ failed = FALSE
  /\ last_shot = 0
  /\ pir_value = "LOW"
  /\ pir_wake = now
  /\ prev_value = "LOW"
  /\ prev_shot = 0
  /\ pir_error = FALSE
  /\ rises = 0
  /\ riseAt = 0
  /\ held = 0
  /\ gap = "none"
  /\ file_size = [t \in Threads |-> 0]
  /\ trace = [t \in Threads |-> <<>>]
  /\ raised = [t \in Threads |-> "none"]
  /\ cleanups = 0
  /\ taken_by = NoOwner

\* the agent in its poll loop, init_pir_sensor having started the watcher
InitAt(now) ==
  /\ InitFrom(now, "poll")
  /\ GPIO_AVAILABLE = TRUE
  /\ pir_thread = "running"

\* the agent started at time 0 of the clock
InitCommon == InitAt(0) /\ cooldown_seconds = 5 /\ recording = FALSE

\* the steps of handle_photo_action and stream_for_duration, the clock not run
ActionStep(t) ==
  \/ PhotoStart(t)
  \/ CaptureAcquire(t)
  \/ CaptureRun(t)
  \/ PhotoUpload(t)
  \/ PhotoPost(t)
  \/ StreamBegin(t)
  \/ \E inTime \in BOOLEAN : (inTime => frames[t] < MaxFrames) /\ StreamCheck(t, inTime)
  \/ StreamUpload(t)
  \/ StreamSleep(t)
  \/ StreamWake(t, TRUE)
  \/ StreamEnd(t)

\* the steps of a thread: the poll loop's dispatched action, or a detection flow
ThreadStep(t) == ActionStep(t) \/ RequestStream(t)

\* the steps of _handle_pir_detection up to the entry of its third stage
FlowStep(t) ==
  \/ PhotoStart(t)
  \/ CaptureAcquire(t)
  \/ CaptureRun(t)
  \/ PhotoUpload(t)
  \/ PhotoPost(t)
  \/ RequestStream(t)
  \/ StreamBegin(t)

\* --- SpecCapture: data-usage telemetry switched off
InitCapture ==
  /\ InitCommon
  /\ DATA_USAGE_ENABLED = FALSE
  /\ ENERGY_SAMPLE_EVERY_POLLS = 1
  /\ DATA_USAGE_FLUSH_EVERY_POLLS = 1
  /\ FRAME_INTERVAL_SECONDS = 2
  /\ PIR_STREAM_DURATION_SECONDS = 30

NextCapture ==
  \/ \E t \in Threads : ThreadStep(t)
  \/ PollControl(ControlReplies({1}))
  \/ EnergySample
  \/ FlushStart
  \/ PollSleep
  \/ \E t \in Flows : PirTrigger(t)

SpecCapture == InitCapture /\ [][NextCapture]_vars

FairCapture ==
  /\ SpecCapture
  /\ \A t \in Threads : WF_vars(ThreadStep(t))
  /\ WF_vars(EnergySample \/ FlushStart \/ PollSleep)


\* --- SpecTelemetry: telemetry on; the control endpoint never asks for an
\* action, so the poll loop records, samples and flushes while one detection
\* flow records photo, system and stream bytes
IdleReplies == {r \in ControlReplies({0}) : r.action = "none"}

InitTelemetry ==
  /\ InitCommon
  /\ DATA_USAGE_ENABLED = TRUE
  /\ ENERGY_SAMPLE_EVERY_POLLS = 1
  /\ DATA_USAGE_FLUSH_EVERY_POLLS = 1
  /\ FRAME_INTERVAL_SECONDS = 2
  /\ PIR_STREAM_DURATION_SECONDS = 30

NextTelemetry ==
  \/ \E t \in Threads : ThreadStep(t) \/ AddStore(t)
  \/ PollControl(IdleReplies)
  \/ EnergySample
  \/ FlushStart
  \/ FlushItem
  \/ PollSleep
  \/ PirTrigger(1)

SpecTelemetry == InitTelemetry /\ [][NextTelemetry]_vars

\* --- SpecPoll: the poll loop alone, telemetry on, every reply
NextPoll ==
  \/ ActionStep(Poller)
  \/ AddStore(Poller)
  \/ PollControl(ControlReplies({0, 1}))
  \/ EnergySample
  \/ FlushStart
  \/ FlushItem
  \/ PollSleep

SpecPoll == InitTelemetry /\ [][NextPoll]_vars

\* --- SpecIter: the poll loop alone with its history kept, every reply
\* (an unknown action, a duration <= 0), telemetry on or off, every period
\* 0 (switched off), 1 or 2
InitIter ==
  /\ InitAt(0)
  /\ cooldown_seconds = 5
  /\ recording = TRUE
  /\ DATA_USAGE_ENABLED \in BOOLEAN
  /\ ENERGY_SAMPLE_EVERY_POLLS \in {0, 1, 2}
  /\ DATA_USAGE_FLUSH_EVERY_POLLS \in {0, 1, 2}
  /\ FRAME_INTERVAL_SECONDS = 2
  /\ PIR_STREAM_DURATION_SECONDS = 30

NextIter ==
  \/ ActionStep(Poller)
  \/ AddStore(Poller)
  \/ PollControl(ControlReplies({-1, 0, 1}))
  \/ EnergySample
  \/ FlushStart
  \/ FlushItem
  \/ PollSleep

SpecIter == InitIter /\ [][NextIter]_vars

\* --- SpecPhoto: the control endpoint asks for photos while one detection
\* flow runs; bytes are recorded, the periodic energy sample and flush are
\* switched off (period 0); history kept
PhotoReplies == {r \in ControlReplies({0}) : r.action = "photo" /\ r.parses}

InitPhoto ==
  /\ InitAt(0)
  /\ cooldown_seconds = 5
  /\ recording = TRUE
  /\ DATA_USAGE_ENABLED = TRUE
  /\ ENERGY_SAMPLE_EVERY_POLLS = 0
  /\ DATA_USAGE_FLUSH_EVERY_POLLS = 0
  /\ FRAME_INTERVAL_SECONDS = 2
  /\ PIR_STREAM_DURATION_SECONDS = 30

\* the steps of handle_photo_action
PhotoStep(t) ==
  \/ PhotoStart(t)
  \/ CaptureAcquire(t)
  \/ CaptureRun(t)
  \/ PhotoUpload(t)
  \/ PhotoPost(t)

NextPhoto ==
  \/ \E t \in {Poller, 1} : PhotoStep(t) \/ AddStore(t)
  \/ PollControl(PhotoReplies)
  \/ EnergySample
  \/ FlushStart
  \/ PollSleep
  \/ PirTrigger(1)

SpecPhoto == InitPhoto /\ [][NextPhoto]_vars

\* --- SpecExit: the process from its start to its end: init_pir_sensor,
\* the poll loop with every reply, one detection flow, and the exceptions
\* that leave a stream session or the loop; telemetry off, history kept
InitExit ==
  /\ InitFrom(0, "start")
  /\ GPIO_AVAILABLE \in BOOLEAN
  /\ pir_thread = "off"
  /\ cooldown_seconds = 5
  /\ recording = TRUE
  /\ DATA_USAGE_ENABLED = FALSE
  /\ ENERGY_SAMPLE_EVERY_POLLS = 0
  /\ DATA_USAGE_FLUSH_EVERY_POLLS = 0
  /\ FRAME_INTERVAL_SECONDS = 2
  /\ PIR_STREAM_DURATION_SECONDS = 30

\* the replies of the control endpoint that parse, with an empty body
ExitReplies == {r \in ControlReplies({1}) : r.parses /\ r.bytes = 0}

\* the steps of the main thread that are not exceptions
MainStep ==
  \/ Boot
  \/ PollControl(ExitReplies)
  \/ ActionStep(Poller)
  \/ EnergySample
  \/ FlushStart
  \/ PollSleep
  \/ MainExcept
  \/ MainFinally

NextExit ==
  \/ MainStep
  \/ PollRaise
  \/ CaptureRaise
  \/ StreamRaise(Poller)
  \/ Alive /\ (PirTrigger(1) \/ ThreadStep(1) \/ StreamRaise(1))

SpecExit == InitExit /\ [][NextExit]_vars

\* --- SpecShutdown: as SpecExit, the detection flow followed up to the
\* call of stream_for_duration
NextShutdown ==
  \/ MainStep
  \/ PollRaise
  \/ CaptureRaise
  \/ StreamRaise(Poller)
  \/ Alive /\ (PirTrigger(1) \/ FlowStep(1))

SpecShutdown == InitExit /\ [][NextShutdown]_vars

\* the main thread is scheduled; nothing is assumed of the detection flow
FairShutdown == SpecShutdown /\ WF_vars(MainStep)

\* --- SpecUsage: the poll loop alone, never asked for an action; in the
\* place of the energy sample every iteration calls _add_data_usage with
\* any category name and any byte count, and then flushes
EventTypes == Categories \cup {"other"}

ByteCounts == -1..(MaxFileBytes + MaxRespBytes)

\* _add_data_usage(event_type, bytes_count), any arguments
AddAny ==
  /\ pc[Poller] = "energy"
  /\ \E event_type \in EventTypes, bytes_count \in ByteCounts :
       /\ AddDataUsage(Poller, event_type, bytes_count, "flush")
       /\ Record(Poller, event_type, bytes_count)
  /\ UNCHANGED <<captureVars, configVars, DATA_USAGE_BUFFER, pollVars, flushVars,
                 clock, pirVars, procVars, taken_by, streamVars, failed>>

InitUsage ==
  /\ InitAt(0)
  /\ cooldown_seconds = 5
  /\ recording = TRUE
  /\ DATA_USAGE_ENABLED \in BOOLEAN
  /\ ENERGY_SAMPLE_EVERY_POLLS = 0
  /\ DATA_USAGE_FLUSH_EVERY_POLLS = 1
  /\ FRAME_INTERVAL_SECONDS = 2
  /\ PIR_STREAM_DURATION_SECONDS = 30

NextUsage ==
  \/ PollControl(IdleReplies)
  \/ AddAny
  \/ AddStore(Poller)
  \/ FlushStart
  \/ FlushItem
  \/ PollSleep

SpecUsage == InitUsage /\ [][NextUsage]_vars

\* --- SpecSerial: the poll loop with every action the control endpoint can
\* ask for, its energy gate and flush gate evaluated at every iteration,
\* beside the photos of the detection flows; telemetry off, history kept
SerialReplies == {r \in ControlReplies({1}) : r.parses /\ r.bytes = 0}

InitSerial ==
  /\ InitAt(0)
  /\ cooldown_seconds = 5
  /\ recording = TRUE
  /\ DATA_USAGE_ENABLED = FALSE
  /\ ENERGY_SAMPLE_EVERY_POLLS = 1
  /\ DATA_USAGE_FLUSH_EVERY_POLLS = 1
  /\ FRAME_INTERVAL_SECONDS = 2
  /\ PIR_STREAM_DURATION_SECONDS = 30

NextSerial ==
  \/ PollControl(SerialReplies)
  \/ ActionStep(Poller)
  \/ EnergySample
  \/ FlushStart
  \/ PollSleep
  \/ \E t \in Flows : PirTrigger(t) \/ PhotoStep(t)

SpecSerial == InitSerial /\ [][NextSerial]_vars

\* --- SpecFlow: the detection flows alone, their calls recorded, each
\* followed up to the call of stream_for_duration
InitFlow ==
  /\ InitAt(0)
  /\ cooldown_seconds = 5
  /\ recording = TRUE
  /\ DATA_USAGE_ENABLED = FALSE
  /\ ENERGY_SAMPLE_EVERY_POLLS = 1
  /\ DATA_USAGE_FLUSH_EVERY_POLLS = 1
  /\ FRAME_INTERVAL_SECONDS = 2
  /\ PIR_STREAM_DURATION_SECONDS \in {10, 30}

NextFlow == \E t \in Flows : FlowStep(t) \/ PirTrigger(t)

SpecFlow == InitFlow /\ [][NextFlow]_vars

\* a started thread runs: the scheduler starves no thread
FairFlow == SpecFlow /\ \A t \in Flows : WF_vars(FlowStep(t))

\* ------------------------------------------------------------ the clock
\* Time passes while a thread is in a blocking call: waiting for the lock,
\* running fswebcam, in an HTTP request, asleep.  The code between two such
\* calls takes no time: a thread that is at such code, that can take the
\* lock, or whose sleep is over, goes on before the clock does.
Urgent(t) ==
  \/ pc[t] \in {"photo_start", "photo_upload", "stream_begin", "stream_check", "stream_sleep",
                "stream_end", "add_store", "flush"}
  \/ pc[t] = "cap_wait" /\ LockFree
  \/ pc[t] = "sleeping" /\ Slept(t)

\* one unit of time passes; limit is the last time explored, running the
\* threads the specification runs
Tick(limit, running) ==
  /\ clock < limit
  /\ \A t \in running : ~Urgent(t)
  /\ clock' = clock + 1
  /\ UNCHANGED <<pc, captureVars, configVars, DATA_USAGE_BUFFER, add, pollVars,
                 flushVars, streamVars, owed, failed, pirVars, procVars, taken_by, trace>>

\* the steps of handle_photo_action and stream_for_duration against the clock
TimedStep(t) ==
  \/ PhotoStart(t)
  \/ CaptureAcquire(t)
  \/ CaptureRun(t)
  \/ PhotoUpload(t)
  \/ PhotoPost(t)
  \/ StreamBegin(t)
  \/ StreamCheck(t, InTime(t))
  \/ StreamUpload(t)
  \/ StreamSleep(t)
  \/ StreamWake(t, Slept(t))
  \/ StreamEnd(t)

\* --- SpecStream: the control endpoint asks the poll loop for streams of 2,
\* 3 or 6 seconds while a detection flow (its photo, then a stream of 0
\* seconds, over at its first test) competes for the lock; telemetry off;
\* the clock counts seconds
StreamReplies == {r \in ControlReplies({2, 3, 6}) : r.action = "stream" /\ r.parses}

InitStream ==
  /\ InitCommon
  /\ DATA_USAGE_ENABLED = FALSE
  /\ ENERGY_SAMPLE_EVERY_POLLS = 1
  /\ DATA_USAGE_FLUSH_EVERY_POLLS = 1
  /\ FRAME_INTERVAL_SECONDS \in {1, 2}
  /\ PIR_STREAM_DURATION_SECONDS = 0

NextStream ==
  \/ \E t \in Threads : TimedStep(t) \/ RequestStream(t)
  \/ PollControl(StreamReplies)
  \/ EnergySample
  \/ FlushStart
  \/ PollSleep
  \/ PirTrigger(1)
  \/ Tick(MaxStreamTime, Threads)

SpecStream == InitStream /\ [][NextStream]_vars

\* --- SpecFrames: the poll loop alone, asked for streams of 3 seconds,
\* telemetry on and never flushed, its calls recorded; the clock counts
\* seconds
FrameReplies == {r \in ControlReplies({3}) : r.action = "stream" /\ r.parses}

InitFrames ==
  /\ InitAt(0)
  /\ cooldown_seconds = 5
  /\ recording = TRUE
  /\ DATA_USAGE_ENABLED = TRUE
  /\ ENERGY_SAMPLE_EVERY_POLLS = 0
  /\ DATA_USAGE_FLUSH_EVERY_POLLS = 0
  /\ FRAME_INTERVAL_SECONDS \in {1, 2}
  /\ PIR_STREAM_DURATION_SECONDS = 30

\* the steps of stream_for_duration against the clock
StreamStep(t) ==
  \/ CaptureAcquire(t)
  \/ CaptureRun(t)
  \/ StreamBegin(t)
  \/ StreamCheck(t, InTime(t))
  \/ StreamUpload(t)
  \/ StreamSleep(t)
  \/ StreamWake(t, Slept(t))
  \/ StreamEnd(t)

NextFrames ==
  \/ StreamStep(Poller)
  \/ AddStore(Poller)
  \/ PollControl(FrameReplies)
  \/ EnergySample
  \/ FlushStart
  \/ PollSleep
  \/ Tick(MaxStreamTime, {Poller})

SpecFrames == InitFrames /\ [][NextFrames]_vars

\* --------------------------------------------------------- _pir_poll_loop
\* In SpecPIR the clock counts ticks of 0.1 second.
PollTicks == 1              \* time.sleep(0.1)
ErrorBackoffTicks == 10     \* time.sleep(1.0)
DefaultCooldownTicks == 50  \* PIR_COOLDOWN_SECONDS, "5" by default

\* detection flows started so far
Launched == Cardinality({t \in Flows : pc[t] # "idle"})

\* (mutation: the cooldown not tested)
TriggeredNoCooldown(value, now_ts) == value = "HIGH"

\* (mutation: a trigger only when the previous reading was low)
TriggeredOnEdge(value, now_ts) ==
  value = "HIGH" /\ prev_value = "LOW" /\ now_ts - last_shot >= cooldown_seconds

\* value == GPIO.HIGH and now_ts - last_shot >= cooldown_seconds
Triggered(value, now_ts) == value = "HIGH" /\ now_ts - last_shot >= cooldown_seconds

\* (mutation: the time of every active reading kept)
ShotOnEveryHigh(value, now_ts) == IF value = "HIGH" THEN now_ts ELSE last_shot

\* last_shot = now_ts, inside the if
ShotAfter(value, now_ts) == IF Triggered(value, now_ts) THEN now_ts ELSE last_shot

\* (mutation: the watcher runs the flow itself, or joins it)
WatcherJoinsFlows == \A t \in Flows : pc[t] \in {"idle", "stream_check", "done"}

\* threading.Thread(target=_handle_pir_detection, daemon=True).start(): the
\* flow runs in a thread of its own and the loop goes on to its sleep
WatcherFree == TRUE

\* one iteration of the watcher's loop: GPIO.input, the test, the launch of
\* a detached flow, time.sleep(0.1); a failed reading is logged and the loop
\* sleeps one second
PirPoll ==
  /\ pir_thread = "running"
  /\ clock >= pir_wake
  /\ WatcherFree
  /\ \/ /\ pir_error' = TRUE
        /\ pir_wake' = clock + ErrorBackoffTicks
        /\ UNCHANGED <<pc, last_shot, prev_shot, prev_value>>
     \/ LET value == pir_value
            now_ts == clock
        IN /\ last_shot' = ShotAfter(value, now_ts)
           /\ IF Triggered(value, now_ts)
              THEN /\ prev_shot' = last_shot
                   /\ \E t \in Flows : ThreadStart(t)
              ELSE UNCHANGED <<pc, prev_shot>>
           /\ prev_value' = value
           /\ pir_wake' = clock + PollTicks
           /\ UNCHANGED pir_error
  /\ UNCHANGED <<captureVars, configVars, DATA_USAGE_BUFFER, add, pollVars, flushVars,
                 clock, streamVars, owed, failed, cooldown_seconds, sensorVars, procVars, taken_by, trace>>

\* the motion sensor's output changes level, having stayed at least
\* MinLevelTicks at the level it leaves
SensorChange ==
  /\ rises = 0 \/ clock - (IF pir_value = "HIGH" THEN riseAt ELSE riseAt + held) >= MinLevelTicks
  /\ IF pir_value = "LOW"
     THEN /\ rises < MaxRises
          /\ pir_value' = "HIGH"
          /\ rises' = rises + 1
          /\ riseAt' = clock
          /\ gap' = IF rises = 0 THEN "none"
                    ELSE IF clock - riseAt < cooldown_seconds THEN "less"
                    ELSE IF clock - riseAt = cooldown_seconds THEN "equal"
                    ELSE "more"
          /\ UNCHANGED held
     ELSE /\ pir_value' = "LOW"
          /\ held' = clock - riseAt
          /\ UNCHANGED <<rises, riseAt, gap>>
  /\ UNCHANGED <<pc, captureVars, configVars, DATA_USAGE_BUFFER, add, pollVars, flushVars,
                 clock, streamVars, owed, failed, cooldown_seconds, watcherVars, procVars, taken_by, trace>>

\* time passes while the watcher sleeps
PirTick == clock < pir_wake /\ Tick(cooldown_seconds + MaxPirTime, {})

\* --- SpecPIR: the watcher, the sensor and the clock.  The detection flows
\* the watcher starts are detached and it reads nothing they write: they are
\* started and not run here.  time.time() is more than the cooldown past
\* the epoch when the agent starts: the clock starts at the cooldown.
InitPIR ==
  /\ cooldown_seconds \in {ShortCooldownTicks, DefaultCooldownTicks}
  /\ InitAt(cooldown_seconds)
  /\ recording = FALSE
  /\ DATA_USAGE_ENABLED = FALSE
  /\ ENERGY_SAMPLE_EVERY_POLLS = 1
  /\ DATA_USAGE_FLUSH_EVERY_POLLS = 1
  /\ FRAME_INTERVAL_SECONDS = 2
  /\ PIR_STREAM_DURATION_SECONDS = 30

NextPIR ==
  \/ PirPoll
  \/ SensorChange
  \/ PirTick

SpecPIR == InitPIR /\ [][NextPIR]_vars

\* --- SpecWatch: the watcher, the sensor and the clock, with the detection
\* flows the watcher starts running beside it up to the call of
\* stream_for_duration.  A flow's step takes any time, for ever included.
WatchHorizon == ShortCooldownTicks + MaxWatchTime

WatchTick == clock < pir_wake /\ Tick(WatchHorizon, {})

InitWatch ==
  /\ cooldown_seconds = ShortCooldownTicks
  /\ InitAt(cooldown_seconds)
  /\ recording = FALSE
  /\ DATA_USAGE_ENABLED = FALSE
  /\ ENERGY_SAMPLE_EVERY_POLLS = 1
  /\ DATA_USAGE_FLUSH_EVERY_POLLS = 1
  /\ FRAME_INTERVAL_SECONDS = 2
  /\ PIR_STREAM_DURATION_SECONDS = 30

\* the motion sensor's output changes level, at any time
SensorFlip ==
  /\ pir_value' = IF pir_value = "LOW" THEN "HIGH" ELSE "LOW"
  /\ UNCHANGED <<pc, captureVars, configVars, DATA_USAGE_BUFFER, add, pollVars, flushVars,
                 clock, streamVars, owed, failed, cooldown_seconds, watcherVars, procVars, taken_by, trace,
                 rises, riseAt, held, gap>>

NextWatch ==
  \/ PirPoll
  \/ SensorFlip
  \/ WatchTick
  \/ \E t \in Flows : FlowStep(t)

SpecWatch == InitWatch /\ [][NextWatch]_vars

\* the watcher's thread is scheduled and its sleeps end; nothing is assumed
\* of the flows
FairWatch == SpecWatch /\ WF_vars(PirPoll) /\ WF_vars(WatchTick)

\* ------------------------------------------------------------- claims
InCapture(t) == pc[t] = "cap_run"

\* C1: in every reachable state at most one thread is inside the physical
\* capture step (the fswebcam run), whichever routine it captures for, and
\* that thread is the one holding CAPTURE_LOCK.
C1_OneCaptureAtATime ==
  /\ Cardinality({t \in Threads : InCapture(t)}) <= 1
  /\ \A t \in Threads : InCapture(t) => CAPTURE_LOCK = t

\* a detection flow captures while the poll loop's stream frame and another
\* detection flow wait for the lock
C1_Witness ==
  /\ InCapture(1)
  /\ pc[Poller] = "cap_wait" /\ caller[Poller] = "stream"
  /\ pc[2] = "cap_wait" /\ caller[2] = "photo"

\* C2: the lock is held only by a thread inside the capture step (it is
\* released on every way out of it: success, non-zero exit, missing file),
\* and with every thread scheduled fairly a run of finitely many capture
\* requests reaches a point after which no request is waiting for the lock
\* or capturing: a thread leaves "cap_wait" only into the capture step and
\* the capture step only by ending it, so each request has performed its
\* capture.
C2_EveryRequestCaptures ==
  /\ [](\A t \in Threads : CAPTURE_LOCK = t => InCapture(t))
  /\ <>[](\A t \in Threads : pc[t] \notin {"cap_wait", "cap_run"})

\* the poll loop's photo capture has failed (no capture has yet produced a
\* file), the lock is free again, and a detection flow is waiting for it
C2_Witness ==
  /\ pc[Poller] = "energy" /\ caller[Poller] = "photo" /\ failed
  /\ ~PHOTO_FILE.exists
  /\ CAPTURE_LOCK = NoOwner
  /\ pc[1] = "cap_wait"


\* no `+=` is between its load and its store
NoAddInProgress == \A t \in Threads : pc[t] # "add_store"

\* C3: no lost updates.  For each category the bytes recorded into it and
\* not yet covered by a successful report (owed) are exactly the bucket's
\* value, whenever no increment is in progress: nothing recorded is dropped
\* and nothing is reported twice.
C3_NoLostUpdates ==
  NoAddInProgress => \A c \in Categories : DATA_USAGE_BUFFER[c] = owed[c]

\* a flush has taken its snapshot in this iteration of the poll loop
FlushRan == pc[Poller] \in {"flush_item", "sleep"} /\ flushIdx > 0

\* a step that is the failed report of category c
FailedReport(c) == sent'[c] = sent[c] + 1 /\ lastFailed'[c] > 0

\* a step that is the successful report of category c
SuccessfulReport(c) == sent'[c] = sent[c] + 1 /\ lastFailed'[c] = 0

\* C4: a failed report of category X leaves X's bucket unchanged, and the
\* next flush reports for X a byte count that includes the bytes of the
\* failed report.
C4_FailedFlushRetained ==
  /\ [][\A c \in Categories :
          FailedReport(c) => DATA_USAGE_BUFFER'[c] = DATA_USAGE_BUFFER[c]]_vars
  /\ [](FlushRan => \A c \in Categories : snapshot[c] >= lastFailed[c])

\* C5: a flush sends one report for each category whose total is nonzero
\* when the flush reads the buffer and none for a category whose total is
\* zero, and a successful report leaves its category at zero.
C5_FlushReports ==
  /\ [](FlushRan => \A c \in Categories : sent[c] <= 1 /\ (sent[c] = 1 => snapshot[c] > 0))
  /\ [](pc[Poller] = "sleep" /\ flushIdx > 0 =>
          \A c \in Categories : sent[c] = IF snapshot[c] > 0 THEN 1 ELSE 0)
  /\ [][\A c \in Categories : SuccessfulReport(c) => DATA_USAGE_BUFFER'[c] = 0]_vars

\* a flush is over: photo was reported with success and is zero, the report
\* of system failed, nothing was sent for detection, whose total was zero
C5_Witness ==
  /\ pc[Poller] = "sleep" /\ flushIdx > 0
  /\ sent["photo"] = 1 /\ lastFailed["photo"] = 0 /\ DATA_USAGE_BUFFER["photo"] = 0
  /\ sent["system"] = 1 /\ lastFailed["system"] > 0
  /\ sent["detection"] = 0 /\ snapshot["detection"] = 0

\* C6: every bucket value is >= 0, and a bucket's value goes down only in
\* the step that is the successful report of its category, which sets it to
\* zero.
C6_OnlyFlushLowers ==
  /\ [](\A c \in Categories : DATA_USAGE_BUFFER[c] >= 0)
  /\ [][\A c \in Categories :
          DATA_USAGE_BUFFER'[c] < DATA_USAGE_BUFFER[c] =>
            /\ pc[Poller] = "flush_item" /\ CatSeq[flushIdx] = c
            /\ SuccessfulReport(c)
            /\ DATA_USAGE_BUFFER'[c] = 0]_vars

\* the positions of the poll loop
PollLoopLabels ==
  {"poll", "photo_start", "cap_wait", "cap_run", "photo_upload", "photo_post", "add_store",
   "stream_begin", "stream_check", "stream_upload", "stream_sleep", "sleeping",
   "stream_end", "energy", "flush", "flush_item", "sleep"}

\* C10: whatever fails in an iteration (the GET, the reply's status or
\* parsing, the dispatched photo or stream action, the energy sample, a
\* data-usage report), the poll loop is still in its loop, and the lock is
\* not left held by it outside the capture step.
C10_PollLoopSurvives ==
  /\ pc[Poller] \in PollLoopLabels
  /\ CAPTURE_LOCK = Poller => InCapture(Poller)

\* an iteration in which something failed is over and the loop is at its
\* next poll
C10_Witness == pc[Poller] = "poll" /\ poll_count >= 1 /\ failed

\* thread t is inside stream_for_duration
InStream(t) ==
  \/ pc[t] \in {"stream_check", "stream_upload", "stream_sleep", "sleeping", "stream_end"}
  \/ pc[t] \in {"cap_wait", "cap_run"} /\ caller[t] = "stream"

\* ceil(a / b) for b > 0
CeilDiv(a, b) == (a + b - 1) \div b

\* C9 (as amended): a stream session of duration D with frame interval
\* I > 0 begins at most ceil(D / I) capture+upload cycles, begins each of
\* them strictly before its deadline, and is over at most one frame interval
\* after its last capture or upload ended (at once when an upload fails).
\* What it runs past D is one frame interval plus the time the last cycle's
\* wait for the lock, capture and upload take, which nothing limits.
C9_StreamBounded ==
  /\ [](\A t \in Threads :
          InStream(t) => frames[t] <= CeilDiv(Duration(t), FRAME_INTERVAL_SECONDS))
  /\ [][\A t \in Threads : frames'[t] = frames[t] + 1 => clock < end_time[t]]_vars
  /\ [](\A t \in Threads :
          pc[t] = "stream_end" => clock <= work_end[t] + FRAME_INTERVAL_SECONDS)

\* the poll loop's stream of 6 seconds with frame interval 2 is over after
\* three cycles, past its deadline, a detection flow having run beside it
C9_Witness ==
  /\ pc[Poller] = "stream_end"
  /\ stream_duration = 6 /\ FRAME_INTERVAL_SECONDS = 2
  /\ frames[Poller] = 3
  /\ clock > end_time[Poller]
  /\ pc[1] # "idle"

\* C9 (as stated): a stream session never runs past its duration by more
\* than one frame interval and performs at most ceil(D / I) cycles, in
\* every execution.
C9_NeverPastDurationPlusInterval ==
  \A t \in Threads :
    InStream(t) =>
      /\ frames[t] <= CeilDiv(Duration(t), FRAME_INTERVAL_SECONDS)
      /\ clock <= end_time[t] + FRAME_INTERVAL_SECONDS

\* the time of the first launch, once one or two flows are launched
FirstShot == IF Launched >= 2 THEN prev_shot ELSE last_shot

C8_LaunchOnActiveLevel ==
  /\ [][Launched' # Launched =>
          /\ Launched' = Launched + 1
          /\ pir_value = "HIGH"
          /\ clock - last_shot >= cooldown_seconds
          /\ last_shot' = clock]_vars
  /\ []((pir_value = "HIGH" /\ ~pir_error /\ clock - riseAt > PollTicks) =>
          clock - last_shot <= cooldown_seconds + PollTicks)

\* the sensor has been active without a break and a second flow was
\* launched, at a reading that followed an active reading
C8_Witness ==
  /\ rises = 1 /\ pir_value = "HIGH" /\ prev_value = "HIGH" /\ ~pir_error
  /\ Launched = 2
  /\ last_shot = clock

\* C8 (as stated): a flow is launched only at a reading that is active
\* after an inactive one, with the cooldown over; a sensor that stays
\* active launches no further flow.
C8_LaunchOnlyOnTransition ==
  /\ [][Launched' # Launched =>
          /\ prev_value = "LOW" /\ pir_value = "HIGH"
          /\ clock - last_shot >= cooldown_seconds]_vars
  /\ [](rises <= 1 => Launched <= 1)

\* C11: the poll counter goes up by exactly one in the step that begins an
\* iteration of the poll loop (whether the control request fails, the reply
\* is unusable or the action is "none") and is changed by no other step: it
\* never goes down and is never reset.
C11_CounterOncePerIteration ==
  [][/\ (pc[Poller] = "poll" /\ pc'[Poller] # "poll") => poll_count' = poll_count + 1
     /\ poll_count' # poll_count => (pc[Poller] = "poll" /\ poll_count' = poll_count + 1)]_vars

\* the second iteration's control request has just failed (no capture was
\* ever asked for) and the counter is 2
C11_Witness ==
  /\ poll_count = 2 /\ pc[Poller] = "energy" /\ failed
  /\ caller[Poller] = "none"

\* how many of thread t's recorded events are in the set es
Count(t, es) == Cardinality({i \in DOMAIN trace[t] : trace[t][i].e \in es})

\* the events of an energy sample that passed its gate
EnergyTried == {"temp_unreadable", "energy_post_ok", "energy_post_failed"}

\* the poll loop has done everything of its iteration but the sleep
IterationOver == pc[Poller] = "sleep"

\* both telemetry calls of the iteration were made, once each, with the
\* incremented counter
BothGatesEvaluated ==
  /\ Count(Poller, EnergyTried \cup {"energy_skip"}) = 1
  /\ Count(Poller, {"flush", "flush_skip"}) = 1
  /\ \A i \in DOMAIN trace[Poller] :
       trace[Poller][i].e \in EnergyTried \cup {"energy_skip", "flush", "flush_skip"} =>
         trace[Poller][i].d = poll_count /\ poll_count >= 1

\* C12 (as amended): in every iteration, after the counter is incremented
\* and whether or not the control request succeeded, both gates are
\* evaluated; the energy sample is attempted exactly when E > 0 and
\* counter mod E = 0, the flush exactly when data-usage telemetry is
\* enabled, F > 0 and counter mod F = 0, and a failed or skipped energy
\* sample does not prevent the flush of the same iteration.
C12_GatesIndependent ==
  IterationOver =>
    /\ BothGatesEvaluated
    /\ Count(Poller, EnergyTried) = 1 <=>
         (ENERGY_SAMPLE_EVERY_POLLS > 0 /\ poll_count % ENERGY_SAMPLE_EVERY_POLLS = 0)
    /\ Count(Poller, {"flush"}) = 1 <=>
         /\ DATA_USAGE_ENABLED
         /\ DATA_USAGE_FLUSH_EVERY_POLLS > 0
         /\ poll_count % DATA_USAGE_FLUSH_EVERY_POLLS = 0

\* the second iteration with E = F = 2: the control request failed, the
\* energy POST failed, and the flush was made all the same
C12_Witness ==
  /\ IterationOver /\ poll_count = 2
  /\ ENERGY_SAMPLE_EVERY_POLLS = 2 /\ DATA_USAGE_FLUSH_EVERY_POLLS = 2
  /\ Count(Poller, {"get_failed"}) = 1
  /\ Count(Poller, {"energy_post_failed"}) = 1
  /\ Count(Poller, {"flush"}) = 1

\* C12 (as stated): for periods E, F > 0 the energy sample is attempted
\* exactly when counter mod E = 0 and the flush exactly when
\* counter mod F = 0.
C12_GatesByModuloOnly ==
  (IterationOver /\ ENERGY_SAMPLE_EVERY_POLLS > 0 /\ DATA_USAGE_FLUSH_EVERY_POLLS > 0) =>
    /\ BothGatesEvaluated
    /\ Count(Poller, EnergyTried) = 1 <=> poll_count % ENERGY_SAMPLE_EVERY_POLLS = 0
    /\ Count(Poller, {"flush"}) = 1 <=> poll_count % DATA_USAGE_FLUSH_EVERY_POLLS = 0

\* what began the poll loop's current iteration: the reply's action, or
\* "bad_reply", or "get_failed"
Reply == trace[Poller][1]

\* the events of a capture or of an image upload
CaptureOrUpload ==
  {"TakePhoto", "Run", "frame", "capture_ok", "capture_failed", "photo_post_ok",
   "photo_post_failed", "frame_post_ok", "frame_post_failed"}

\* C13: dispatch of the control reply.  Action "photo" calls
\* handle_photo_action exactly once and starts no stream; action "stream"
\* with a duration > 0 calls stream_for_duration exactly once, with that
\* duration, and takes no photo; after any other reply (action "none", an
\* unknown action, "stream" with a duration <= 0, a reply that cannot be
\* used, a failed request) the iteration makes no capture and no image
\* upload.  The counter has been incremented in each case.
C13_Dispatch ==
  IterationOver =>
    /\ poll_count >= 1
    /\ Reply.e = "photo" =>
         Count(Poller, {"TakePhoto"}) = 1 /\ Count(Poller, {"Run"}) = 0
    /\ (Reply.e = "stream" /\ Reply.d > 0) =>
         /\ Count(Poller, {"TakePhoto"}) = 0
         /\ Count(Poller, {"Run"}) = 1
         /\ \A i \in DOMAIN trace[Poller] :
              trace[Poller][i].e = "Run" => trace[Poller][i].d = Reply.d
    /\ (Reply.e # "photo" /\ ~(Reply.e = "stream" /\ Reply.d > 0)) =>
         Count(Poller, CaptureOrUpload) = 0

\* an iteration whose reply was "photo" is over: one call of
\* handle_photo_action, one capture, one upload
C13_Witness ==
  /\ IterationOver /\ Reply.e = "photo"
  /\ Count(Poller, {"TakePhoto"}) = 1
  /\ Count(Poller, {"capture_ok"}) = 1
  /\ Count(Poller, {"photo_post_ok"}) = 1

\* the d of thread t's last recorded event e
LastOf(t, e) ==
  LET is == {i \in DOMAIN trace[t] : trace[t][i].e = e}
  IN trace[t][CHOOSE i \in is : \A j \in is : j <= i].d

\* C14: in an iteration whose reply is "photo" and whose capture (of a file
\* that is not empty) and upload both succeed there is exactly one capture
\* and one POST to the photo
\* endpoint, the amount recorded for it is the bytes of the file that was
\* uploaded plus the bytes of the reply, and the `photo` bucket goes up by
\* exactly that amount.
C14_PhotoRecorded ==
  /\ []((pc[Poller] \in {"add_store", "energy"} /\ Reply.e = "photo"
           /\ Count(Poller, {"photo_post_ok"}) >= 1
           /\ LastOf(Poller, "capture_ok") > 0) =>
          /\ Count(Poller, {"capture_ok", "capture_failed"}) = 1
          /\ Count(Poller, {"photo_post_ok", "photo_post_failed"}) = 1
          /\ (pc[Poller] = "add_store" /\ add[Poller].cat = "photo") =>
               add[Poller].n = LastOf(Poller, "photo_post_ok"))
  /\ [][(pc[Poller] = "add_store" /\ pc'[Poller] # "add_store" /\ add[Poller].cat = "photo") =>
          DATA_USAGE_BUFFER'["photo"] = DATA_USAGE_BUFFER["photo"] + add[Poller].n]_vars

\* the poll loop's capture for a photo failed as the claim means it: the
\* capturer exited non-zero or left no file (the code raises), or it left an
\* empty file
PhotoCaptureFailed ==
  /\ Len(trace[Poller]) >= 1 /\ Reply.e = "photo"
  /\ \/ Count(Poller, {"capture_failed"}) = 1
     \/ Count(Poller, {"capture_ok"}) = 1 /\ LastOf(Poller, "capture_ok") = 0

\* C15: when the capture of a photo fails (non-zero exit, missing file,
\* empty file) the lock is released, there is no POST to the photo endpoint
\* and nothing is added to the `photo` bucket.
C15_FailedCaptureNoUpload ==
  PhotoCaptureFailed =>
    /\ CAPTURE_LOCK = NoOwner
    /\ Count(Poller, {"photo_post_ok", "photo_post_failed"}) = 0
    /\ ~(pc[Poller] = "add_store" /\ add[Poller].cat = "photo")
    /\ pc[Poller] \notin {"photo_upload", "photo_post"}

\* the positions at which a thread is in an HTTP request: the control GET,
\* the photo and frame uploads, the stream-session request, the energy
\* sample and the data-usage report
NetworkLabels ==
  {"poll", "photo_post", "stream_upload", "reqstream", "energy", "flush_item"}

\* C16: no thread holds the lock while it is in a network request, so
\* whenever a thread waits for the lock and no capture is running the lock is
\* free for it, whatever requests the other threads are in.
C16_NoLockAcrossNetwork ==
  /\ \A t \in Threads : pc[t] \in NetworkLabels => CAPTURE_LOCK # t
  /\ ((\E u \in Threads : pc[u] = "cap_wait") /\ (\A v \in Threads : ~InCapture(v))) =>
       LockFree

\* the poll loop is in its photo upload and a detection flow in its
\* stream-session request while the other detection flow captures
C16_Witness ==
  /\ pc[Poller] = "photo_post"
  /\ pc[1] = "reqstream"
  /\ InCapture(2) /\ CAPTURE_LOCK = 2

\* C17: when the energy gate is open and the CPU temperature cannot be
\* read, no energy POST is made in the iteration, and the step that finds
\* it unreadable records nothing and goes on to the flush.
C17_NoSampleWithoutTemperature ==
  /\ [](Count(Poller, {"temp_unreadable"}) >= 1 =>
          Count(Poller, {"energy_post_ok", "energy_post_failed"}) = 0)
  /\ [][Count(Poller, {"temp_unreadable"})' > Count(Poller, {"temp_unreadable"}) =>
          /\ pc'[Poller] = "flush"
          /\ UNCHANGED <<DATA_USAGE_BUFFER, add, owed>>]_vars

\* the temperature was unreadable in an iteration whose gate was open, and
\* the iteration is over with the `system` bucket as the control reply left it
C17_Witness ==
  /\ IterationOver
  /\ Count(Poller, {"temp_unreadable"}) = 1
  /\ Reply.e = "none"
  /\ DATA_USAGE_ENABLED /\ DATA_USAGE_BUFFER["system"] = 1

\* the stage of a detection flow that an event opens; 0 for the others
StageOf(x) ==
  CASE x.e = "TakePhoto" -> 1
    [] x.e \in {"reqstream_ok", "reqstream_failed"} -> 2
    [] x.e = "Run" -> 3
    [] OTHER -> 0

\* the events of thread t that open a stage, in the order they happened
StageEvents(t) == SelectSeq(trace[t], LAMBDA x : StageOf(x) > 0)

\* a stage of thread t has failed
StageFailed(t) ==
  Count(t, {"capture_failed", "photo_post_failed", "reqstream_failed"}) >= 1

\* C18: a detection flow opens its stages in the order TakePhoto, request
\* of a stream session, Run, each at most once, the request and Run with
\* the same duration; and a started flow reaches Run whatever has failed.
C18_StagesInOrder ==
  /\ [](\A t \in Flows :
          LET s == StageEvents(t)
          IN /\ Len(s) <= 3
             /\ \A i \in 1..Len(s) : StageOf(s[i]) = i
             /\ \A i \in 2..Len(s) : s[i].d = PIR_STREAM_DURATION_SECONDS)
  /\ \A t \in Flows : (pc[t] = "photo_start") ~> (Count(t, {"Run"}) = 1)

\* one flow's capture failed, the other's photo upload and stream request
\* failed, and both have entered their stream session
C18_Witness ==
  /\ Count(1, {"capture_failed"}) = 1 /\ Count(1, {"Run"}) = 1
  /\ Count(2, {"photo_post_failed"}) = 1 /\ Count(2, {"reqstream_failed"}) = 1
  /\ Count(2, {"Run"}) = 1

\* C19: whatever the detection flows do and however often the sensor
\* cannot be read, the watcher goes on reading: it reads at every wake-up up
\* to the last time explored, so that its next wake-up is past that time.
C19_WatcherKeepsReading == <>(pir_wake > WatchHorizon)

\* a reading has failed, one flow captures and the other waits for the
\* lock, and the watcher has read the sensor since it started the second flow
C19_Witness ==
  /\ pir_error
  /\ pc[1] = "cap_run" /\ pc[2] = "cap_wait"
  /\ pir_wake > last_shot + PollTicks

\* the poll loop's stream session is at a frame whose capture failed: the
\* failure, or the sleep that follows it, is the last thing it did
AtFailedFrame ==
  LET T == trace[Poller]
      n == Len(T)
  IN /\ n >= 2
     /\ \/ T[n].e = "capture_failed"
        \/ T[n].e = "frame_sleep" /\ T[n - 1].e = "capture_failed"

\* C20: in a stream session a failed frame capture is followed by one
\* sleep of the frame interval, then by the test of the deadline (the next
\* frame, or the end of the session); nothing is uploaded and the buckets
\* are not touched for the failed frame.
C20_FailedFrameSkipped ==
  /\ [](LET T == trace[Poller]
        IN \A i \in 1..Len(T) :
             T[i].e = "capture_failed" =>
               /\ i = Len(T) => pc[Poller] = "stream_sleep"
               /\ i < Len(T) =>
                    T[i + 1].e = "frame_sleep" /\ T[i + 1].d = FRAME_INTERVAL_SECONDS
               /\ i + 1 = Len(T) => pc[Poller] \in {"sleeping", "stream_check"}
               /\ i + 1 < Len(T) => T[i + 2].e \in {"frame", "deadline"})
  /\ [][AtFailedFrame => UNCHANGED <<DATA_USAGE_BUFFER, add, owed>>]_vars

\* a frame's capture failed and a later frame of the same session was
\* captured and uploaded
C20_Witness ==
  LET T == trace[Poller]
  IN \E i, j \in 1..Len(T) :
       /\ i < j
       /\ T[i].e = "capture_failed"
       /\ T[j].e = "frame_post_ok"
       /\ pc[Poller] = "sleeping"
       /\ DATA_USAGE_BUFFER["stream"] = T[j].d

\* the events of a stream session's loop
FrameEvents ==
  {"frame", "capture_ok", "capture_failed", "frame_empty", "frame_post_ok",
   "frame_post_failed", "frame_sleep"}

\* the positions of a thread inside a stream session's loop
FrameLabels ==
  {"stream_check", "cap_wait", "cap_run", "stream_upload", "stream_sleep", "sleeping"}

\* C21: in a stream session a failed frame upload is the last thing the
\* loop does (no later capture, upload or sleep) and touches no bucket; an
\* empty frame is not uploaded, touches no bucket and is followed by the
\* sleep; an uploaded frame is not empty and adds its bytes plus the
\* reply's bytes to the `stream` bucket.
C21_FrameUploadOutcomes ==
  /\ [](LET T == trace[Poller]
        IN \A i \in 1..Len(T) :
             /\ T[i].e = "frame_post_failed" =>
                  /\ \A j \in (i + 1)..Len(T) : T[j].e \notin FrameEvents
                  /\ pc[Poller] \notin FrameLabels \cup {"add_store"}
                  /\ CAPTURE_LOCK # Poller
             /\ T[i].e = "frame_empty" =>
                  /\ i = Len(T) => pc[Poller] = "stream_sleep"
                  /\ i < Len(T) => T[i + 1].e = "frame_sleep")
  /\ [][pc[Poller] = "stream_upload" /\ pc'[Poller] # "stream_upload" =>
          LET x == trace'[Poller][Len(trace'[Poller])]
          IN /\ Len(trace'[Poller]) = Len(trace[Poller]) + 1
             /\ x.e \in {"frame_post_failed", "frame_empty"} =>
                  UNCHANGED <<DATA_USAGE_BUFFER, add, owed>>
             /\ x.e = "frame_empty" <=> PHOTO_FILE.size = 0
             /\ x.e \notin {"frame_post_failed", "frame_empty"} =>
                  /\ x.e = "frame_post_ok"
                  /\ pc'[Poller] = "add_store"
                  /\ add'[Poller].cat = "stream"
                  /\ add'[Poller].n - PHOTO_FILE.size \in 0..MaxRespBytes]_vars
  /\ [][pc[Poller] = "add_store" /\ pc'[Poller] # "add_store" /\ add[Poller].cat = "stream" =>
          /\ DATA_USAGE_BUFFER' =
               [DATA_USAGE_BUFFER EXCEPT !["stream"] = @ + add[Poller].n]
          /\ pc'[Poller] = "stream_sleep"]_vars

\* in the poll loop's first stream session an empty frame was skipped, the
\* next frame was uploaded and recorded, the third frame's upload failed,
\* and the session is over
C21_Witness ==
  LET T == trace[Poller]
  IN /\ poll_count = 1
     /\ pc[Poller] = "sleep"
     /\ \E i, j, k \in 1..Len(T) :
          /\ i < j /\ j < k
          /\ T[i].e = "frame_empty"
          /\ T[j].e = "frame_post_ok"
          /\ T[k].e = "frame_post_failed"
          /\ DATA_USAGE_BUFFER["stream"] = T[j].d

\* thread t is in a stream session: it has entered the try block of
\* stream_for_duration and not yet left its finally clause
InSession(t) ==
  \/ pc[t] \in {"stream_check", "stream_upload", "stream_sleep", "sleeping", "stream_end"}
  \/ pc[t] \in {"cap_wait", "cap_run"} /\ caller[t] = "stream"
  \/ pc[t] = "add_store" /\ add[t].ret = "stream_sleep"

\* C22: a thread has logged the terminal line once for every stream
\* session it has left, however it left it, and not for the one it is in.
C22_OneTerminalLine ==
  \A t \in Threads :
    Count(t, {"Streaming finalizado"}) =
      Count(t, {"Run"}) - (IF InSession(t) THEN 1 ELSE 0)

\* the poll loop's session was left by KeyboardInterrupt, now at the handler
\* of __main__, and the detection flow's by an error caught by the flow, each
\* with its terminal line
C22_Witness ==
  /\ pc[Poller] = "main_except"
  /\ Count(Poller, {"Run"}) = 1 /\ Count(Poller, {"Streaming finalizado"}) = 1
  /\ pc[1] = "done"
  /\ Count(1, {"raise"}) = 1 /\ Count(1, {"Streaming finalizado"}) = 1

\* GPIO.cleanup() has been called as the end of the process requires: once
\* if RPi.GPIO was imported, never otherwise
CleanedUp == cleanups = (IF GPIO_AVAILABLE THEN 1 ELSE 0)

\* C23: the process ends only after the cleanup step, and an exception
\* that leaves the poll loop (KeyboardInterrupt or any other) always takes
\* the main thread through that step to the end of the process, whatever
\* the detection flow is doing.
C23_CleanupOnEveryExit ==
  /\ [](pc[Poller] = "exited" => CleanedUp)
  /\ [](pc[Poller] # "exited" => cleanups = 0)
  /\ (pc[Poller] \in {"main_except", "main_finally"} \/ raised[Poller] = "interrupt")
       ~> (pc[Poller] = "exited" /\ CleanedUp)

\* the process has ended on an error that no handler caught, the pin
\* released, while the detection flow was waiting for fswebcam
C23_Witness ==
  /\ pc[Poller] = "exited"
  /\ raised[Poller] = "error"
  /\ GPIO_AVAILABLE /\ cleanups = 1
  /\ pc[1] = "cap_run" /\ CAPTURE_LOCK = 1

\* C24: without RPi.GPIO the watcher's thread is never started; while it
\* is not running no detection flow is started; and init_pir_sensor always
\* returns to poll_and_execute_loop, which goes on to its first poll.
C24_SensorlessStillPolls ==
  /\ [](~GPIO_AVAILABLE => pir_thread = "off")
  /\ [](pir_thread # "running" => \A t \in Flows : pc[t] = "idle")
  /\ [][pc[Poller] = "start" => pc'[Poller] \in {"start", "poll"}]_vars
  /\ (pc[Poller] = "start") ~> (pc[Poller] = "poll")

\* RPi.GPIO was imported but the pin's setup failed: no watcher, no
\* detection flow, and the poll loop has finished two iterations
C24_Witness ==
  /\ GPIO_AVAILABLE /\ pir_thread = "off"
  /\ \A t \in Flows : pc[t] = "idle"
  /\ poll_count >= 2 /\ pc[Poller] = "sleep"

\* C25: a thread makes at most one POST of a photo for each call of
\* handle_photo_action; the step in which that POST fails records nothing,
\* raises nothing and takes the thread to what follows the call: the
\* telemetry of the poll iteration, or the flow's request of a stream.
C25_PhotoUploadOnce ==
  /\ [](\A t \in Threads :
          Count(t, {"photo_post_ok", "photo_post_failed"}) <= Count(t, {"TakePhoto"}))
  /\ [][\A t \in Threads :
          (/\ pc[t] = "photo_post" /\ pc'[t] # "photo_post"
           /\ trace'[t][Len(trace'[t])].e = "photo_post_failed") =>
            /\ pc'[t] = (IF t = Poller THEN "energy" ELSE "reqstream")
            /\ raised'[t] = "none"
            /\ UNCHANGED <<DATA_USAGE_BUFFER, add, owed>>]_vars

\* the poll loop's photo upload failed and its iteration is over, the
\* detection flow's failed too and the flow has gone on to its request of a
\* stream, and nothing has been recorded into `photo`
C25_Witness ==
  /\ pc[Poller] = "sleep"
  /\ Count(Poller, {"photo_post_failed"}) = 1
  /\ pc[1] = "reqstream"
  /\ Count(1, {"photo_post_failed"}) = 1
  /\ DATA_USAGE_BUFFER["photo"] = 0 /\ owed["photo"] = 0

\* the detection flows that have been started and have not returned
Running == {t \in Flows : pc[t] \notin {"idle", "done"}}

\* C26: the watcher starts a flow at every trigger, however many flows are
\* running; and when two or more run at once, at most one of them is in
\* fswebcam and that one owns the lock.
C26_OverlappingFlowsSerialized ==
  /\ [](Cardinality(Running) >= 2 =>
          /\ \A t, u \in Running : InCapture(t) /\ InCapture(u) => t = u
          /\ \A t \in Running : InCapture(t) => CAPTURE_LOCK = t)
  /\ [][last_shot' # last_shot => Cardinality(Running') = Cardinality(Running) + 1]_vars

\* a second flow was started one cooldown or more after the first, which is
\* still uploading its photo, and the second is in fswebcam
C26_Witness ==
  /\ Running = {1, 2}
  /\ last_shot - prev_shot >= cooldown_seconds /\ prev_shot > 0
  /\ pc[1] = "photo_post"
  /\ pc[2] = "cap_run" /\ CAPTURE_LOCK = 2

Uploading(t) == pc[t] \in {"photo_upload", "photo_post", "stream_upload"}

\* C28: while a thread is between its capture and its upload, and the
\* file at PHOTO_FILE_PATH is the one its capture wrote, no step replaces
\* that file with another thread's.
C28_ImageNotReplaced ==
  [][\A t \in Threads : Uploading(t) /\ taken_by = t => taken_by' = t]_vars

\* C29: the step that reports category X changes no other category's
\* total and no other category's report count, leaves X as it was when the
\* report fails, and, failed or not, goes on to the next category whose
\* total in the list was nonzero, or ends the flush when there is none.
C29_ReportsIndependent ==
  [][(\E c \in Categories : sent'[c] > sent[c]) =>
       LET X == CatSeq[flushIdx]
           later == {j \in (flushIdx + 1)..Len(CatSeq) : snapshot[CatSeq[j]] > 0}
       IN /\ pc[Poller] = "flush_item"
          /\ \A c \in Categories \ {X} :
               DATA_USAGE_BUFFER'[c] = DATA_USAGE_BUFFER[c] /\ sent'[c] = sent[c]
          /\ lastFailed'[X] > 0 => DATA_USAGE_BUFFER'[X] = DATA_USAGE_BUFFER[X]
          /\ lastFailed'[X] = 0 => DATA_USAGE_BUFFER'[X] = 0
          /\ later # {} =>
               /\ pc'[Poller] = "flush_item"
               /\ flushIdx' \in later /\ \A j \in later : flushIdx' <= j
          /\ later = {} => pc'[Poller] = "sleep"]_vars

\* a flush is over in which the report of photo failed, photo keeping its
\* total, and the report of system, made after it, succeeded
C29_Witness ==
  /\ pc[Poller] = "sleep" /\ flushIdx > 0
  /\ sent["photo"] = 1 /\ lastFailed["photo"] > 0
  /\ DATA_USAGE_BUFFER["photo"] >= lastFailed["photo"]
  /\ sent["system"] = 1 /\ lastFailed["system"] = 0

\* C30: the buffer's keys are always the four categories; a call of
\* _add_data_usage with a byte count <= 0, or with telemetry disabled,
\* changes nothing; otherwise it adds the count to the category named, or
\* to `system` when the name is not a category; and with telemetry disabled
\* the buffer stays at zero and no report is sent.
C30_RecordingContract ==
  /\ [](DOMAIN DATA_USAGE_BUFFER = Categories)
  /\ [](~DATA_USAGE_ENABLED =>
          /\ DATA_USAGE_BUFFER = Zeros /\ sent = Zeros
          /\ pc[Poller] \notin {"add_store", "flush_item"}
          /\ Count(Poller, {"report_ok", "report_failed"}) = 0)
  /\ [][pc[Poller] = "energy" /\ pc'[Poller] # "energy" =>
          LET x == trace'[Poller][Len(trace'[Poller])]
          IN /\ DATA_USAGE_BUFFER' = DATA_USAGE_BUFFER
             /\ IF x.d <= 0 \/ ~DATA_USAGE_ENABLED
                THEN pc'[Poller] = "flush" /\ add' = add
                ELSE /\ pc'[Poller] = "add_store"
                     /\ add'[Poller].n = x.d
                     /\ add'[Poller].cat = (IF x.e \in Categories THEN x.e ELSE "system")]_vars
  /\ [][pc[Poller] = "add_store" /\ pc'[Poller] # "add_store" =>
          DATA_USAGE_BUFFER' =
            [DATA_USAGE_BUFFER EXCEPT ![add[Poller].cat] = @ + add[Poller].n]]_vars

\* after a control reply with an empty body, two bytes were recorded under
\* a name that is not a category: they are in `system`, and the flush is
\* about to start
C30_Witness ==
  /\ pc[Poller] = "flush"
  /\ Len(trace[Poller]) = 2
  /\ trace[Poller][1].d = 0 /\ trace[Poller][2] = [e |-> "other", d |-> 2]
  /\ poll_count = 1
  /\ DATA_USAGE_BUFFER = [Zeros EXCEPT !["system"] = 2]

\* the events with which the poll loop enters a dispatched action, and
\* those of its energy gate and flush gate
ActionStarts == {"TakePhoto", "Run"}
GateEvents == EnergyTried \cup {"energy_skip", "flush", "flush_skip"}

\* the poll loop's thread is inside the action it dispatched
InAction ==
  pc[Poller] \in {"photo_start", "cap_wait", "cap_run", "photo_upload", "photo_post",
                  "stream_begin", "stream_check", "stream_upload", "stream_sleep",
                  "sleeping", "stream_end"}

\* every action the poll loop entered in this iteration has returned: the
\* photo with the outcome of its capture or of its upload, the stream
\* session with its terminal line
ActionReturned ==
  /\ Count(Poller, {"TakePhoto"}) > 0 =>
       Count(Poller, {"capture_failed", "photo_post_ok", "photo_post_failed"}) > 0
  /\ Count(Poller, {"Run"}) = Count(Poller, {"Streaming finalizado"})

\* C31: the poll loop's thread runs at most one action per iteration and
\* is at its control request, energy gate, flush gate or sleep only when
\* the action it dispatched has returned; no gate is evaluated before or
\* during the action; and whenever that thread waits for CAPTURE_LOCK or
\* holds it, no poll-triggered action is on the other side: the lock is
\* then held by a detection flow, or by no one.
C31_PollerSerial ==
  /\ Count(Poller, ActionStarts) <= 1
  /\ ~InAction => ActionReturned
  /\ InAction => /\ Count(Poller, GateEvents) = 0
                 /\ Count(Poller, ActionStarts) = 1 \/ pc[Poller] \in {"photo_start", "stream_begin"}
  /\ \A i, j \in DOMAIN trace[Poller] :
       trace[Poller][i].e \in GateEvents /\ trace[Poller][j].e \in ActionStarts => j < i
  /\ pc[Poller] = "cap_wait" => CAPTURE_LOCK \in Flows \cup {NoOwner}
  /\ CAPTURE_LOCK = Poller => InCapture(Poller)

\* in its second iteration the poll loop, whose first action was a photo
\* that returned, streams and waits for the lock while a detection flow is
\* in fswebcam
C31_Witness ==
  /\ poll_count = 2
  /\ pc[Poller] = "cap_wait" /\ caller[Poller] = "stream"
  /\ Count(Poller, {"Run"}) = 1
  /\ CAPTURE_LOCK = 1 /\ InCapture(1)
  /\ taken_by = Poller

====
